---- MODULE Spec2Model ----
(***************************************************************************)
(* A model of smyth.py: the parallel HMM-clustering pipeline of            *)
(* HMMCluster (construct, distance matrix, partitions, per-cluster         *)
(* training, reassembly) on top of a multiprocessing pool.                 *)
(*                                                                         *)
(* Conventions.  Python lists are TLA+ sequences, so positions are 1-based *)
(* here where the code is 0-based (sequence i of the code is S[i+1]);      *)
(* cluster labels keep the code's 0-based values.  Python dicts are        *)
(* functions whose DOMAIN is the key set.  The external libraries (ghmm,   *)
(* sklearn, Pycluster) are oracles: their results are tagged records or    *)
(* values drawn from small sets.                                           *)
(***************************************************************************)
EXTENDS Integers, Sequences, FiniteSets, TLC

\* ---------------------------------------------------------------- bounds
MaxN == 3
MaxK == 3
MaxSpan == 1
MaxBatch == 3
NJobs == 2
NSeeds == 4
MaxRuns == 2

\* ------------------------------------------------------ program constants
N_PASSES == 10
BATCH_SIZE == 500000

VARIABLES
    args,        \* the constructor's arguments
    pc,          \* where the caller of __init__ / model() stands
    err,         \* the exception that ended the call, or "none"
    exists,      \* TRUE once __init__ has created the attributes below
    components, composites, dist_matrix, partitions, labelings,
    k_values, init_hmms,
    pool,        \* "none" | "open" | "closed"
    job,         \* the pool.map call in progress
    loc,         \* local variables of the method that is running
    oracle,      \* what the external log-likelihood will answer
    hist,        \* history: what has been submitted, collected, consumed
    timer,       \* the clock, self.times and the `start` locals
    w            \* one call of a worker function, step by step

vars == <<args, pc, err, exists, components, composites, dist_matrix,
          partitions, labelings, k_values, init_hmms, pool, job, loc,
          oracle, hist, timer, w>>

\* ------------------------------------------------------------- utilities
Min(a, b) == IF a <= b THEN a ELSE b

\* Python's range(a, b) as a sequence
Range(a, b) == [i \in 1..(IF b > a THEN b - a ELSE 0) |-> a + i - 1]

\* dict[k] = v
Put(d, k, v) == [x \in DOMAIN d \cup {k} |-> IF x = k THEN v ELSE d[x]]

EmptyDict == <<>>

RECURSIVE SumSeq(_)
SumSeq(s) == IF Len(s) = 0 THEN 0 ELSE Head(s) + SumSeq(Tail(s))

RECURSIVE Flatten(_)
Flatten(ss) == IF Len(ss) = 0 THEN <<>> ELSE Head(ss) \o Flatten(Tail(ss))

\* the sub-sequence of s at the positions idx, in ascending order
SelectIdx(s, idx) ==
    LET F[i \in 0..Len(s)] ==
            IF i = 0 THEN <<>>
            ELSE IF i \in idx THEN Append(F[i-1], s[i]) ELSE F[i-1]
    IN F[Len(s)]

\* ------------------------------------------------------------ the input
\* Sequence number i of the input: all distinct, of length 1 or 2.
SeqOf(i) == IF i % 2 = 1 THEN <<i>> ELSE <<i, i + 7>>

\* self.S for n sequences
SeqList(n) == [i \in 1..n |-> SeqOf(i)]

\* which input sequence a given sequence is
SeqId(s) == s[1]

DistFuncs == {"hmm", "editdistance"}
HmmInits == {"smyth", "random"}
ClustAlgs == {"hierarchical", "kmedoids"}
TrainModes == {"blockdiag", "cluster"}

ArgSet ==
    {a \in [n : 0..MaxN, target_m : {2}, min_k : 0..MaxK, max_k : 0..MaxK,
             dist_func : DistFuncs \cup {"bogus"},
             hmm_init : HmmInits \cup {"bogus"},
             clust_alg : ClustAlgs \cup {"bogus"},
             train_mode : TrainModes \cup {"bogus"}] :
        a.max_k - a.min_k <= MaxSpan}

\* ------------------------------------------------- external capabilities
\* hmm_utils.tripleToHMM / hmmToTriple: a triple and its opaque model handle
tripleToHMM(triple) == [handle |-> triple]
hmmToTriple(hmm) == hmm.handle

\* ghmm's baumWelch on a handle: the handle refined with the sequences
baumWelch(hmm, seqs) == [handle |-> [kind |-> "trained", from |-> hmm.handle, S |-> seqs]]

\* ghmm's loglikelihood(seq) of a model: an even integer, fixed by the oracle
\* seed.  Seeds 0 and 1 answer only values <= 0; seed 2 answers a positive
\* value for sequence i under the model of sequence i+1 (i >= 2); the other
\* seeds for sequence 2 under the model of sequence 1.
LogLik(hmm, seq, seed) ==
    LET i == SeqId(seq)
        j == SeqId(hmm.handle.S[1])
    IN  IF seed = 2 /\ i >= 2 /\ j = i + 1 THEN 2
        ELSE IF seed >= 3 /\ i = 2 /\ j = 1 THEN 2
        ELSE 0 - 2 * ((i + 2 * j + seed) % 5)

\* cluster_utils.partition(items, labels): the items grouped by label, groups
\* in ascending label order, items in their original order within a group
partition(items, labels) ==
    LET used == {labels[i] : i \in 1..Len(labels)}
        Rank(l) == Cardinality({x \in used : x < l}) + 1
        LabelAt(r) == CHOOSE l \in used : Rank(l) = r
    IN  [r \in 1..Cardinality(used) |->
            SelectIdx(items, {i \in 1..Len(items) : labels[i] = LabelAt(r)})]

\* levenshtein.levDistance: the edit distance of two sequences
RECURSIVE levDistance(_, _)
levDistance(a, b) ==
    IF Len(a) = 0 THEN Len(b)
    ELSE IF Len(b) = 0 THEN Len(a)
    ELSE Min(Min(levDistance(Tail(a), b) + 1, levDistance(a, Tail(b)) + 1),
             levDistance(Tail(a), Tail(b)) + (IF Head(a) = Head(b) THEN 0 ELSE 1))

\* the number of items a condensed distance matrix describes
NItems(d) == CHOOSE n \in 1..(Len(d) + 1) : n * (n - 1) = 2 * Len(d)

\* the distance of the items i and j (1-based) as Pycluster reads a flat
\* distance matrix d: the rows of the lower-left triangle one after another;
\* an item is at distance 0 from itself
CondensedAt(d, i, j) ==
    LET a == Min(i, j)
        b == IF i < j THEN j ELSE i
    IN  IF a = b THEN 0 ELSE d[((b - 1) * (b - 2)) \div 2 + a]

\* the largest / smallest element of a non-empty set of numbers
MaxOf(xs) == CHOOSE x \in xs : \A y \in xs : y <= x
MinOf(xs) == CHOOSE x \in xs : \A y \in xs : x <= y

\* The label lists Pycluster.kmedoids can end on with g medoids: the label
\* of an item is the 0-based index of the medoid of its cluster, a medoid is
\* in its own cluster, and every other item is with a medoid nearest to it.
Labelings(dist, g) ==
    LET n == NItems(dist)
        near(i, M) == {m \in M : \A x \in M :
                          CondensedAt(dist, i, m) <= CondensedAt(dist, i, x)}
    IN  UNION {{l \in [1..n -> 0..(n - 1)] :
                   \A i \in 1..n :
                      IF i \in M THEN l[i] = i - 1
                      ELSE \E m \in near(i, M) : l[i] = m - 1}
               : M \in {X \in SUBSET (1..n) : Cardinality(X) = g}}

\* the distance of two clusters under pairwise maximum (complete) linkage
Linkage(dist, A, B) ==
    MaxOf({CondensedAt(dist, a, b) : a \in A, b \in B})

\* the ways to merge the clusters P down to one, always joining two clusters
\* at the smallest linkage distance: each way the list of the partitions
\* after the 1st, 2nd, ... merge
RECURSIVE Merges(_, _)
Merges(dist, P) ==
    IF Cardinality(P) <= 1 THEN {<<>>}
    ELSE LET pairs == {X \in SUBSET P : Cardinality(X) = 2}
             link(X) == LET A == CHOOSE A \in X : TRUE
                        IN  Linkage(dist, A, CHOOSE B \in X : B # A)
             least == MinOf({link(X) : X \in pairs})
         IN  UNION {LET Q == (P \ X) \cup {UNION X}
                    IN  {<<Q>> \o t : t \in Merges(dist, Q)}
                    : X \in {Y \in pairs : link(Y) = least}}

\* Pycluster.treecluster(distancematrix=dist, method='m'): the tree of n-1
\* merges over the n items (more than one tree only when distances tie)
Trees(dist) ==
    Merges(dist, {{i} : i \in 1..NItems(dist)})

\* Pycluster's tree.cut(k): the clusters left when the last k-1 merges are
\* undone, numbered 0, 1, ... in the order of their first item
treeCut(tree, k) ==
    LET n == Len(tree) + 1
        P == IF k = n THEN {{i} : i \in 1..n} ELSE tree[n - k]
        first(i) == MinOf(CHOOSE A \in P : i \in A)
    IN  [i \in 1..n |-> Cardinality({MinOf(A) : A \in {B \in P : MinOf(B) < first(i)}})]

\* Pycluster.kmedoids(dist_matrix, k, n_passes): the (labels, error, nfound)
\* it may return; at most k clusters are used, and maybe fewer.
kmedoids(dist, k, n_passes) ==
    {<<l, 0, 1>> : l \in UNION {Labelings(dist, g) : g \in 1..k}}

\* ---------------------------------------------------- module-level workers
Ok(v) == [st |-> "ok", val |-> v]
Fail(e) == [st |-> "fail", val |-> e]
Pending == [st |-> "pending", val |-> 0]
NoneTriple == [kind |-> "None"]

\* smythDefaultTriple(pair): the default triple of a set of sequences
smythDefaultTriple(pair) ==
    [kind |-> "default", S |-> pair[1], m |-> pair[2]]

\* randomDefaultTriple(pair): `pass`, so it returns None
randomDefaultTriple(pair) == NoneTriple

\* symDistance without its two assertions
symDistanceNoAssert(a, seed) ==
    LET seq1 == a[1][1]
        triple1 == a[1][2]
        seq2 == a[2][1]
        triple2 == a[2][2]
    IN  IF triple1.kind = "None" \/ triple2.kind = "None"
        THEN Fail("TypeError")
        ELSE Ok((LogLik(tripleToHMM(triple2), seq1, seed)
                 + LogLik(tripleToHMM(triple1), seq2, seed)) \div 2)

\* symDistance(args) under a log-likelihood oracle
symDistance(a, seed) ==
    LET seq1 == a[1][1]
        triple1 == a[1][2]
        seq2 == a[2][1]
        triple2 == a[2][2]
    IN  IF triple1.kind = "None" \/ triple2.kind = "None"
        THEN Fail("TypeError")
        ELSE LET s1_m2 == LogLik(tripleToHMM(triple2), seq1, seed)
                 s2_m1 == LogLik(tripleToHMM(triple1), seq2, seed)
             IN  IF s1_m2 > 0 \/ s2_m1 > 0
                 THEN Fail("AssertionError")
                 ELSE Ok((s1_m2 + s2_m1) \div 2)

\* reestimated(pair): Baum-Welch on a triple with the sequences S
reestimated(pair) == hmmToTriple(baumWelch(tripleToHMM(pair[1]), pair[2]))

\* trainHMM(pair)
trainHMM(pair) == reestimated(<<smythDefaultTriple(pair), pair[1]>>)

\* kMedoids(args): the worker wrapping Pycluster.kmedoids
kMedoids(a) ==
    IF a[2] < 1 \/ Len(a[1]) = 0 \/ a[2] > NItems(a[1])
    THEN {Fail("ValueError")}
    ELSE {Ok(r) : r \in kmedoids(a[1], a[2], a[3])}

\* ------------------------------------------------------- HMMCluster.__init__
\* a _sanityCheck without its first assertion
sanityCheckNoRange(a) ==
    /\ a.dist_func \in DistFuncs
    /\ a.hmm_init \in HmmInits
    /\ a.clust_alg \in ClustAlgs
    /\ a.train_mode \in TrainModes

\* _sanityCheck: the five assertions
sanityCheck(a) ==
    /\ a.min_k <= a.max_k
    /\ a.dist_func \in DistFuncs
    /\ a.hmm_init \in HmmInits
    /\ a.clust_alg \in ClustAlgs
    /\ a.train_mode \in TrainModes

\* self.k_values = range(self.min_k, self.max_k+1)
kValues(a) == Range(a.min_k, a.max_k + 1)

NoJob == [kind |-> "none", items |-> <<>>, results |-> <<>>]
NoLoc == [m |-> "none"]
NoneMatrix == [none |-> TRUE, data |-> <<>>]

Hist0 ==
    [init_collected |-> 0, pair_submitted |-> 0, pair_collected |-> 0,
     part_steps |-> 0, train_owner |-> <<>>, consumed |-> <<>>,
     submitted |-> 0,
     runs |-> 0,             \* calls of model() so far
     dist_calls |-> 0,       \* calls of _getDistMatrix in this run
     tree_builds |-> 0,      \* calls of treecluster in this run
     cuts |-> <<>>,          \* the k of every tree.cut(k) of this run
     kmed_tasks |-> <<>>,    \* the batch of _kMedoids and its results
     kmed_results |-> <<>>,
     overtaken |-> FALSE,    \* a training task finished before an earlier one
     stage_start |-> EmptyDict,   \* the clock when each stage began
     elapsed |-> EmptyDict]       \* the clock at its end minus that

\* the clock (clock() read at an action is timer.clock), self.times, and the
\* local `start` of model(), of _cluster() and of the method that is running
Timer0 ==
    [clock |-> 0, times |-> EmptyDict, start_model |-> 0, start_cluster |-> 0,
     start |-> 0]

\* the clock moves on between two of the program's readings of it
Tick(t) == [t EXCEPT !.clock = @ + 1]

\* self.times[key] = clock() - start
Timed(t, key, start) == [t EXCEPT !.times = Put(@, key, t.clock - start)]

\* history: a stage begins / ends at clock value now
Begin(h, key, now) == [h EXCEPT !.stage_start = Put(@, key, now)]
End(h, key, now) == [h EXCEPT !.elapsed = Put(@, key, now - h.stage_start[key])]

\* no worker call is being followed
NoWorker == [at |-> "none"]

Init ==
    /\ args \in ArgSet
    /\ pc = "new"
    /\ err = "none"
    /\ exists = FALSE
    /\ components = EmptyDict
    /\ composites = EmptyDict
    /\ dist_matrix = NoneMatrix
    /\ partitions = EmptyDict
    /\ labelings = EmptyDict
    /\ k_values = <<>>
    /\ init_hmms = <<>>
    /\ pool = "none"
    /\ job = NoJob
    /\ loc = NoLoc
    /\ oracle \in (IF args.dist_func = "hmm" THEN 0..(NSeeds - 1) ELSE {0})
    /\ hist = Hist0
    /\ timer = Timer0
    /\ w = NoWorker

\* HMMCluster(S, target_m, min_k, max_k, ...): the assertion of _sanityCheck
\* fails before any attribute after train_mode is assigned.
Construct ==
    /\ pc = "new"
    /\ IF sanityCheck(args)
       THEN /\ pc' = "ready"
            /\ exists' = TRUE
            /\ k_values' = kValues(args)
            /\ pool' = "open"
            /\ err' = "none"
       ELSE /\ pc' = "ctor_failed"
            /\ err' = "AssertionError"
            /\ UNCHANGED <<exists, k_values, pool>>
    /\ UNCHANGED timer
    /\ UNCHANGED <<args, components, composites, dist_matrix, partitions,
                   labelings, init_hmms, job, loc, oracle, hist, w>>

\* ------------------------------------------------------ multiprocessing.Pool
\* pool.map(fn, items): every item is handed to the pool
Submit(kind, items) ==
    [kind |-> kind, items |-> items, results |-> [i \in 1..Len(items) |-> Pending]]

\* the tasks a worker may be running: the first NJobs unfinished ones
Runnable(j) ==
    {i \in 1..Len(j.items) :
        /\ j.results[i].st = "pending"
        /\ Cardinality({x \in 1..(i - 1) : j.results[x].st = "pending"}) < NJobs}

\* what a worker may answer for one item of the batch
RunTask(kind, item) ==
    CASE kind = "init" ->
           IF args.hmm_init = "smyth"
           THEN {Ok(smythDefaultTriple(item)), Fail("ExternalError")}
           ELSE {Ok(randomDefaultTriple(item))}
      [] kind = "dist" -> {symDistance(item, oracle)}
      [] kind = "edit" -> {Ok(levDistance(item[1], item[2]))}
      [] kind = "kmedoids" -> kMedoids(item)
      [] kind = "train" -> {Ok(trainHMM(item)), Fail("ExternalError")}

\* a map that does not wait for its results (map_async without get)
MapReadyNoWait(j) == \A i \in 1..Len(j.items) : j.results[i].st # "fail"

\* pool.map returns once every result is in ...
MapReady(j) == \A i \in 1..Len(j.items) : j.results[i].st = "ok"
\* ... or raises what a task raised
MapFailed(j) == \E i \in 1..Len(j.items) : j.results[i].st = "fail"
MapError(j) ==
    j.results[CHOOSE i \in 1..Len(j.items) :
                 /\ j.results[i].st = "fail"
                 /\ \A x \in 1..(i - 1) : j.results[x].st # "fail"].val
\* results handed back last-submitted first, as an unordered map may do
MapValuesUnordered(j) ==
    [i \in 1..Len(j.items) |-> j.results[Len(j.items) + 1 - i].val]

\* the list pool.map returns: the results in submission order
MapValues(j) == [i \in 1..Len(j.items) |-> j.results[i].val]
\* how many results the caller receives
Collected(j) == Cardinality({i \in 1..Len(j.items) : j.results[i].st = "ok"})

WaitPcs == {"init_wait", "dist_wait", "edit_wait", "kmed_wait", "train_wait"}

\* a worker process finishes one task of the batch; once a task has raised,
\* the caller is on its way out of pool.map and sees no further result
TaskFinish ==
    /\ pc \in WaitPcs
    /\ ~MapFailed(job)
    /\ \E i \in Runnable(job) :
         \E r \in RunTask(job.kind, job.items[i]) :
            /\ job' = [job EXCEPT !.results[i] = r]
            /\ hist' = [hist EXCEPT !.overtaken =
                           @ \/ (job.kind = "train"
                                   /\ \E x \in 1..(i - 1) : job.results[x].st = "pending")]
    /\ UNCHANGED timer
    /\ UNCHANGED <<args, pc, err, exists, components, composites, dist_matrix,
                   partitions, labelings, k_values, init_hmms, pool, loc,
                   oracle, w>>

\* a task raised: pool.map re-raises in the caller, and model() ends there
MapRaise ==
    /\ pc \in WaitPcs
    /\ MapFailed(job)
    /\ pc' = "failed"
    /\ err' = MapError(job)
    /\ UNCHANGED timer
    /\ UNCHANGED <<args, exists, components, composites, dist_matrix,
                   partitions, labelings, k_values, init_hmms, pool, job, loc,
                   oracle, hist, w>>

\* ------------------------------------------------------- the distance stage
S == SeqList(args.n)

\* _getHMMBatchItems: all pairs (i, j), i < j, row-major
getHMMBatchItems(seqs, hmms) ==
    Flatten([i \in 1..Len(seqs) |->
                [d \in 1..(Len(seqs) - i) |->
                    <<<<seqs[i], hmms[i]>>, <<seqs[i + d], hmms[i + d]>>>>]])

\* the dist_batch of _getEditDistMatrix
editBatchItems(seqs) ==
    Flatten([i \in 1..Len(seqs) |->
                [d \in 1..(Len(seqs) - i) |-> <<seqs[i], seqs[i + d]>>]])

\* itertools.islice(items, start, stop)
islice(items, start, stop) ==
    IF start >= Min(stop, Len(items)) THEN <<>>
    ELSE SubSeq(items, start + 1, Min(stop, Len(items)))

\* a loop that forgets the last, partial mini-batch
nMiniBatchesNoTail(n_batchitems, batch_size) == n_batchitems \div batch_size

\* the number of mini-batches the loop of _getHMMDistMatrix runs
nMiniBatches(n_batchitems, batch_size) == (n_batchitems \div batch_size) + 1

\* bounds that run every mini-batch to the end of the pair list
miniBatchBoundsToEnd(i, batch_size, n_batchitems) ==
    <<batch_size * i, n_batchitems>>

\* the bounds (start, stop) of mini-batch i
miniBatchBounds(i, batch_size, n_batchitems) ==
    <<batch_size * i, Min(batch_size * (i + 1), n_batchitems)>>

\* the history at the start of a call of model(): the per-run counters start
\* again, and _getDistMatrix is called
RunStart(h, now, first) ==
    [h EXCEPT !.runs = @ + 1, !.dist_calls = 1, !.tree_builds = 0, !.cuts = <<>>,
              !.kmed_tasks = <<>>, !.kmed_results = <<>>,
              !.init_collected = 0, !.pair_submitted = 0, !.pair_collected = 0,
              !.part_steps = 0, !.train_owner = <<>>, !.consumed = <<>>,
              !.overtaken = FALSE,
              !.stage_start = Put(Put(Put(@, "total", now), "clustering", now),
                                  first, now)]

\* model() -> _cluster() -> _hierarchical()/_kMedoids() -> _getDistMatrix():
\* the first pool.map of the run.  model() can be called on an object whose
\* earlier run has returned: self.pool is still the pool of __init__, closed
\* by that run, and pool.map on it raises.
Model ==
    /\ pc \in {"ready", "done", "failed"}
    /\ hist.runs < MaxRuns
    /\ timer' = [Tick(timer) EXCEPT !.start_model = timer.clock,
                                    !.start_cluster = timer.clock,
                                    !.start = timer.clock]
    /\ IF pool # "open"
       THEN /\ pc' = "failed"
            /\ err' = "AssertionError"
            /\ hist' = RunStart(hist, timer.clock,
                                IF args.dist_func = "hmm" THEN "init_hmms"
                                ELSE "distance_matrix")
            /\ job' = NoJob
            /\ loc' = [m |-> IF args.dist_func = "hmm" THEN "init" ELSE "edit"]
       ELSE IF args.dist_func = "hmm"
       THEN /\ job' = Submit("init", [i \in 1..args.n |-> <<<<S[i]>>, args.target_m>>])
            /\ pc' = "init_wait"
            /\ loc' = [m |-> "init"]
            /\ hist' = [RunStart(hist, timer.clock, "init_hmms")
                           EXCEPT !.submitted = @ + args.n]
            /\ err' = "none"
       ELSE /\ job' = Submit("edit", editBatchItems(S))
            /\ pc' = "edit_wait"
            /\ loc' = [m |-> "edit"]
            /\ hist' = [RunStart(hist, timer.clock, "distance_matrix")
                           EXCEPT !.pair_submitted = @ + Len(editBatchItems(S)),
                                  !.submitted = @ + Len(editBatchItems(S))]
            /\ err' = "none"
    /\ UNCHANGED <<args, exists, components, composites, dist_matrix,
                   partitions, labelings, k_values, init_hmms, pool, oracle, w>>

\* batch_size: the program's 500000, and sizes small enough for the loop to
\* split the pairs of a few sequences
BatchSizes == (1..MaxBatch) \cup {BATCH_SIZE}

\* _getHMMDistMatrix, after the pool.map of the default models
CollectInit ==
    /\ pc = "init_wait"
    /\ MapReady(job)
    /\ init_hmms' = MapValues(job)
    /\ \E bs \in BatchSizes :
         loc' = [m |-> "hmmdist", condensed |-> <<>>, i |-> 0, batch_size |-> bs,
                 n_batchitems |-> (args.n * (args.n + 1)) \div 2 - args.n]
    /\ UNCHANGED oracle
    /\ hist' = [Begin(End(hist, "init_hmms", timer.clock), "distance_matrix", timer.clock)
                   EXCEPT !.init_collected = @ + Collected(job)]
    /\ timer' = [Tick(Timed(timer, "init_hmms", timer.start))
                    EXCEPT !.start = timer.clock]
    /\ job' = NoJob
    /\ pc' = "dist_loop"
    /\ UNCHANGED <<args, err, exists, components, composites, dist_matrix,
                   partitions, labelings, k_values, pool, w>>

\* one turn of the mini-batch loop: `start, stop = ...` (which assigns the
\* local that held the clock), islice and pool.map(symDistance, ...)
SubmitMiniBatch ==
    /\ pc = "dist_loop"
    /\ loc.i < nMiniBatches(loc.n_batchitems, loc.batch_size)
    /\ LET b == miniBatchBounds(loc.i, loc.batch_size, loc.n_batchitems)
           mini_batch == islice(getHMMBatchItems(S, init_hmms), b[1], b[2])
       IN  /\ job' = Submit("dist", mini_batch)
           /\ hist' = [hist EXCEPT !.pair_submitted = @ + Len(mini_batch),
                                   !.submitted = @ + Len(mini_batch)]
           /\ timer' = [timer EXCEPT !.start = b[1]]
    /\ pc' = "dist_wait"
    /\ UNCHANGED <<args, err, exists, components, composites, dist_matrix,
                   partitions, labelings, k_values, init_hmms, pool, loc, oracle, w>>

\* condensed += the results of the mini-batch
CollectMiniBatch ==
    /\ pc = "dist_wait"
    /\ MapReady(job)
    /\ loc' = [loc EXCEPT !.condensed = @ \o MapValues(job), !.i = @ + 1]
    /\ hist' = [hist EXCEPT !.pair_collected = @ + Collected(job)]
    /\ job' = NoJob
    /\ pc' = "dist_loop"
    /\ UNCHANGED timer
    /\ UNCHANGED <<args, err, exists, components, composites, dist_matrix,
                   partitions, labelings, k_values, init_hmms, pool, oracle, w>>

\* where _hierarchical / _kMedoids go on once self.dist_matrix is assigned
AfterDist == IF args.clust_alg = "hierarchical" THEN "tree" ELSE "kmed"

\* the log-likelihood averages returned as they are, not negated
shiftedNot(condensed) == condensed

\* shifted = map(lambda l: -1*l, condensed)
shifted(condensed) == [i \in 1..Len(condensed) |-> (0 - 1) * condensed[i]]

\* the end of _getHMMDistMatrix: self.times['distance_matrix'], negate,
\* min()/max() (which raise on an empty list), return the array; the caller
\* assigns self.dist_matrix
FinishHMMDist ==
    /\ pc = "dist_loop"
    /\ loc.i >= nMiniBatches(loc.n_batchitems, loc.batch_size)
    /\ IF Len(loc.condensed) = 0
       THEN /\ pc' = "failed"
            /\ err' = "ValueError"
            /\ UNCHANGED <<dist_matrix, loc>>
       ELSE /\ dist_matrix' = [none |-> FALSE, data |-> shifted(loc.condensed)]
            /\ pc' = AfterDist
            /\ loc' = NoLoc
            /\ UNCHANGED err
    /\ timer' = Tick(Timed(timer, "distance_matrix", timer.start))
    /\ hist' = End(hist, "distance_matrix", timer.clock)
    /\ UNCHANGED <<args, exists, components, composites, partitions, labelings,
                   k_values, init_hmms, pool, job, oracle, w>>

\* _getEditDistMatrix after its pool.map; the caller assigns self.dist_matrix
CollectEdit ==
    /\ pc = "edit_wait"
    /\ MapReady(job)
    /\ dist_matrix' = [none |-> FALSE, data |-> MapValues(job)]
    /\ hist' = [End(hist, "distance_matrix", timer.clock)
                   EXCEPT !.pair_collected = @ + Collected(job)]
    /\ timer' = Tick(Timed(timer, "distance_matrix", timer.start))
    /\ job' = NoJob
    /\ loc' = NoLoc
    /\ pc' = AfterDist
    /\ UNCHANGED <<args, err, exists, components, composites, partitions,
                   labelings, k_values, init_hmms, pool, oracle, w>>

\* ------------------------------------------------------ the partition stage
\* _hierarchical: treecluster(distancematrix=self.dist_matrix, method='m');
\* Pycluster builds no tree from fewer than two items
TreeCluster ==
    /\ pc = "tree"
    /\ hist' = [hist EXCEPT !.part_steps = @ + 1, !.tree_builds = @ + 1]
    /\ IF Len(dist_matrix.data) = 0
       THEN /\ pc' = "failed"
            /\ err' = "ValueError"
            /\ UNCHANGED loc
       ELSE /\ \E t \in Trees(dist_matrix.data) :
                 loc' = [m |-> "hier", tree |-> t, kpos |-> 1]
            /\ pc' = "cut"
            /\ UNCHANGED err
    /\ UNCHANGED timer
    /\ UNCHANGED <<args, exists, components, composites, dist_matrix,
                   partitions, labelings, k_values, init_hmms, pool, job, oracle, w>>

\* one turn of `for k in self.k_values`: tree.cut(k), which raises unless
\* 1 <= k <= number of items, then labelings[k] and partitions[k]; after the
\* last turn _cluster writes self.times['clustering']
Cut ==
    /\ pc = "cut"
    /\ loc.kpos <= Len(k_values)
    /\ LET k == k_values[loc.kpos]
           h == [hist EXCEPT !.part_steps = @ + 1, !.cuts = Append(@, k)]
       IN  IF k < 1 \/ k > Len(loc.tree) + 1
           THEN /\ pc' = "failed"
                /\ err' = "ValueError"
                /\ hist' = h
                /\ UNCHANGED timer
                /\ UNCHANGED <<labelings, partitions, loc>>
           ELSE LET labels == treeCut(loc.tree, k)
                IN  /\ labelings' = Put(labelings, k, labels)
                    /\ partitions' = Put(partitions, k, partition(S, labels))
                    /\ IF loc.kpos = Len(k_values)
                       THEN /\ pc' = "train"
                            /\ loc' = NoLoc
                            /\ hist' = End(h, "clustering", timer.clock)
                            /\ timer' = Tick(Timed(timer, "clustering", timer.start_cluster))
                       ELSE /\ pc' = "cut"
                            /\ loc' = [loc EXCEPT !.kpos = @ + 1]
                            /\ hist' = h
                            /\ UNCHANGED timer
                    /\ UNCHANGED err
    /\ UNCHANGED <<args, exists, components, composites, dist_matrix,
                   k_values, init_hmms, pool, job, oracle, w>>

\* _kMedoids: pool.map(kMedoids, ((self.dist_matrix, k, 10) for k in k_values))
SubmitKMedoids ==
    /\ pc = "kmed"
    /\ job' = Submit("kmedoids",
                     [i \in 1..Len(k_values) |-> <<dist_matrix.data, k_values[i], N_PASSES>>])
    /\ hist' = [hist EXCEPT !.part_steps = @ + 1, !.submitted = @ + Len(k_values),
                            !.kmed_tasks = job'.items]
    /\ pc' = "kmed_wait"
    /\ loc' = [m |-> "kmedoids"]
    /\ UNCHANGED timer
    /\ UNCHANGED <<args, err, exists, components, composites, dist_matrix,
                   partitions, labelings, k_values, init_hmms, pool, oracle, w>>

\* a loop that pairs the k-th key with the result of another task
kMedoidsLabelingsCrossed(results) ==
    [k \in {k_values[i] : i \in 1..Len(k_values)} |->
        results[Len(k_values) + 1
                  - (CHOOSE i \in 1..Len(k_values) : k_values[i] = k)][1]]

\* the loop of _kMedoids over the results
kMedoidsLabelings(results) ==
    [k \in {k_values[i] : i \in 1..Len(k_values)} |->
        results[CHOOSE i \in 1..Len(k_values) : k_values[i] = k][1]]

\* _kMedoids after its pool.map; then _cluster writes self.times['clustering']
CollectKMedoids ==
    /\ pc = "kmed_wait"
    /\ MapReady(job)
    /\ labelings' = kMedoidsLabelings(MapValues(job))
    /\ partitions' = [k \in DOMAIN labelings' |-> partition(S, labelings'[k])]
    /\ hist' = [End(hist, "clustering", timer.clock) EXCEPT !.kmed_results = MapValues(job)]
    /\ timer' = Tick(Timed(timer, "clustering", timer.start_cluster))
    /\ job' = NoJob
    /\ loc' = NoLoc
    /\ pc' = "train"
    /\ UNCHANGED <<args, err, exists, components, composites, dist_matrix,
                   k_values, init_hmms, pool, oracle, w>>

\* ------------------------------------------------------- the training stage
\* the batch of _trainModels: one item per cluster of every partition, k by k
flattenClusters(kv, parts) == Flatten([p \in 1..Len(kv) |-> parts[kv[p]]])

\* the k each item of the batch was built for
flattenOwners(kv, parts) ==
    Flatten([p \in 1..Len(kv) |-> [c \in 1..Len(parts[kv[p]]) |-> kv[p]]])

EmptyComponent == [hmm_triples |-> <<>>, cluster_sizes |-> <<>>, seq_lens |-> <<>>]

\* _trainModels up to its pool.map(trainHMM, batch_items)
SubmitTrain ==
    /\ pc = "train"
    /\ LET clusters == flattenClusters(k_values, partitions)
       IN  /\ loc' = [m |-> "train",
                      cluster_sizes |-> [i \in 1..Len(clusters) |-> Len(clusters[i])],
                      seq_lens |-> [i \in 1..Len(clusters) |->
                                      [x \in 1..Len(clusters[i]) |-> Len(clusters[i][x])]]]
           /\ job' = Submit("train", [i \in 1..Len(clusters) |-> <<clusters[i], args.target_m>>])
           /\ hist' = [Begin(hist, "modeling", timer.clock)
                          EXCEPT !.train_owner = flattenOwners(k_values, partitions),
                                 !.submitted = @ + Len(clusters)]
    /\ timer' = [Tick(timer) EXCEPT !.start = timer.clock]
    /\ components' = [k \in {k_values[i] : i \in 1..Len(k_values)} |-> EmptyComponent]
    /\ pc' = "train_wait"
    /\ UNCHANGED <<args, err, exists, composites, dist_matrix, partitions,
                   labelings, k_values, init_hmms, pool, oracle, w>>

\* hmm_utils.compositeTriple: the block-diagonal triple of the components of a k
compositeTriple(component) ==
    [kind |-> "composite", blocks |-> component.hmm_triples,
     sizes |-> component.cluster_sizes, seq_lens |-> component.seq_lens]

\* a reassembly loop that stops one item short
takeCountShort(k) == IF k > 1 THEN k - 1 ELSE 0

\* how many items the inner loop `for i in xrange(0, k)` takes for k
takeCount(k) == IF k > 0 THEN k ELSE 0

\* The reassembly loops of _trainModels, from position kpos of k_values and
\* batch index idx (0-based, as in the code).  An index past the end of the
\* lists raises IndexError and leaves what was appended so far.
RECURSIVE reassemble(_, _, _, _)
reassemble(kpos, idx, st, l) ==
    IF kpos > Len(k_values) THEN st
    ELSE LET k == k_values[kpos]
             avail == Len(l.hmm_triples) - idx
             take == Min(takeCount(k), IF avail > 0 THEN avail ELSE 0)
             got ==
                [hmm_triples |-> st.components[k].hmm_triples
                                   \o SubSeq(l.hmm_triples, idx + 1, idx + take),
                 cluster_sizes |-> st.components[k].cluster_sizes
                                   \o SubSeq(l.cluster_sizes, idx + 1, idx + take),
                 seq_lens |-> st.components[k].seq_lens
                                   \o SubSeq(l.seq_lens, idx + 1, idx + take)]
             st1 == [st EXCEPT !.components[k] = got,
                               !.consumed = @ \o [x \in 1..take |-> <<k, idx + x>>]]
         IN  IF take < takeCount(k)
             THEN [st1 EXCEPT !.err = "IndexError"]
             ELSE reassemble(kpos + 1, idx + take,
                    [st1 EXCEPT !.composites =
                        Put(@, k, hmmToTriple(tripleToHMM(compositeTriple(got))))],
                    l)

\* _trainModels after its pool.map (self.times['modeling'], then the
\* reassembly), and the end of model(): self.times['total'], pool.close()
CollectTrain ==
    /\ pc = "train_wait"
    /\ MapReady(job)
    /\ LET r == reassemble(1, 0,
                  [components |-> components, composites |-> composites,
                   consumed |-> <<>>, err |-> "none"],
                  [hmm_triples |-> MapValues(job), cluster_sizes |-> loc.cluster_sizes,
                   seq_lens |-> loc.seq_lens])
       IN  /\ components' = r.components
           /\ composites' = r.composites
           /\ err' = r.err
           /\ IF r.err = "none"
              THEN /\ pc' = "done"
                   /\ pool' = "closed"
                   /\ timer' = Tick(Timed(Timed(timer, "modeling", timer.start),
                                          "total", timer.start_model))
                   /\ hist' = [End(End(hist, "modeling", timer.clock), "total", timer.clock)
                                  EXCEPT !.consumed = r.consumed]
              ELSE /\ pc' = "failed"
                   /\ pool' = pool
                   /\ timer' = Tick(Timed(timer, "modeling", timer.start))
                   /\ hist' = [End(hist, "modeling", timer.clock)
                                  EXCEPT !.consumed = r.consumed]
    /\ UNCHANGED <<args, exists, dist_matrix, partitions, labelings, k_values,
                   init_hmms, job, loc, oracle, w>>

Next ==
    \/ Construct
    \/ Model
    \/ TaskFinish
    \/ MapRaise
    \/ CollectInit
    \/ SubmitMiniBatch
    \/ CollectMiniBatch
    \/ FinishHMMDist
    \/ CollectEdit
    \/ TreeCluster
    \/ Cut
    \/ SubmitKMedoids
    \/ CollectKMedoids
    \/ SubmitTrain
    \/ CollectTrain

Spec == Init /\ [][Next]_vars

\* ================================================ the worker functions
\* What trainHMM computes, value by value.  The pipeline above carries
\* triples as opaque records; here a triple is <<A, B, pi>> with A a list of
\* rows, B a list of <<mu, stddev>> and pi a list.  Probabilities are exact
\* fractions <<numerator, denominator>>; means and standard deviations are in
\* tenths, rounded down (stddev 5 is 0.5).
MaxSeqs == 2
MaxM == 2

\* EPSILON = .5, in tenths
EPSILON == 5

\* the sequences a cluster is made of
SeqMenu == {<<>>, <<1>>, <<1, 2>>, <<4, 4>>, <<1, 1, 2>>}

\* the clusters handed to trainHMM: lists of 0..MaxSeqs sequences
ClusterSet == UNION {[1..c -> SeqMenu] : c \in 0..MaxSeqs}

\* the largest observation value
MaxObs == 4

\* prepareSeqs(S): the merged observations and the distinct values
prepareSeqs(seqs) ==
    LET merged == Flatten(seqs)
    IN  <<merged, {merged[i] : i \in 1..Len(merged)}>>

\* numpy.mean of a list of observations, in tenths
mean(cluster) == (10 * SumSeq(cluster)) \div Len(cluster)

\* numpy.std (the population standard deviation), in tenths:
\* the largest t with (t/10)^2 <= (len * sum(x^2) - sum(x)^2) / len^2
std(cluster) ==
    LET len == Len(cluster)
        q == len * SumSeq([i \in 1..len |-> cluster[i] * cluster[i]])
               - SumSeq(cluster) * SumSeq(cluster)
    IN  CHOOSE t \in 0..(10 * MaxObs) :
            /\ t * t * len * len <= 100 * q
            /\ (t + 1) * (t + 1) * len * len > 100 * q

\* sklearn's k_means(merged, m_prime): it raises on an empty input or on zero
\* clusters; otherwise every observation gets one of the labels 0..m_prime-1,
\* equal observations the same label, and not every label need be used
kMeansAnswers(merged, m_prime) ==
    IF Len(merged) = 0 \/ m_prime < 1
    THEN {Fail("ValueError"), Ok(<<>>)}
    ELSE {Ok([i \in 1..Len(merged) |-> f[merged[i]]]) :
             f \in [{merged[i] : i \in 1..Len(merged)} -> 0..(m_prime - 1)]}

\* the m_prime of smythEmissionDistribution
emissionStates(pair) == Min(pair[2], Cardinality(prepareSeqs(pair[1])[2]))

\* smythEmissionDistribution(pair), given the labels k_means answered:
\* one (mu, stddev) per group of partition(merged, labels)
smythEmissionDistribution(pair, labels) ==
    LET clusters == partition(prepareSeqs(pair[1])[1], labels)
    IN  [c \in 1..Len(clusters) |-> <<mean(clusters[c]), std(clusters[c])>>]

\* matrix_utils.uniformMatrix(rows, cols, v)
uniformMatrix(rows, cols, v) == [r \in 1..rows |-> [c \in 1..cols |-> v]]

\* an initial triple with as many states as the caller asked for
initialTripleTarget(B, target_m) ==
    <<uniformMatrix(target_m, target_m, <<1, target_m>>), B,
      [s \in 1..target_m |-> <<1, target_m>>]>>

\* the triple smythDefaultTriple hands to tripleToHMM: m_prime = len(B),
\* A = uniformMatrix(m_prime, m_prime, 1.0/m_prime), pi = [1.0/m_prime]*m_prime
initialTriple(B, target_m) ==
    <<uniformMatrix(Len(B), Len(B), <<1, Len(B)>>), B,
      [s \in 1..Len(B) |-> <<1, Len(B)>>]>>

\* ghmm's baumWelch on a model of r states: the same number of states, and
\* whatever parameters the training arrives at
baumWelchAnswers(triple) ==
    LET r == Len(triple[2])
        same == triple[1]
        loops == [s \in 1..r |-> [c \in 1..r |-> IF c = s THEN <<1, 1>> ELSE <<0, 1>>]]
        first == [s \in 1..r |-> IF s = 1 THEN <<1, 1>> ELSE <<0, 1>>]
        B_p(dmu, sigma) == [s \in 1..r |-> <<triple[2][s][1] + dmu, sigma>>]
    IN  {<<same, B_p(0, 0), triple[3]>>, <<loops, B_p(1, 2), first>>,
         <<same, B_p(3, 5), first>>, <<loops, B_p(0 - 2, 12), triple[3]>>}

\* a floor that is applied to the emissions Baum-Welch exported
floorEmissionsPost(B, B_p) ==
    [s \in 1..Len(B_p) |-> <<B_p[s][1], IF B_p[s][2] >= EPSILON THEN B_p[s][2] ELSE EPSILON>>]

\* B_p = map(lambda b: (b[0], max(b[1], EPSILON)), B)
floorEmissions(B, B_p) ==
    [s \in 1..Len(B) |-> <<B[s][1], IF B[s][2] >= EPSILON THEN B[s][2] ELSE EPSILON>>]

\* the triple smythDefaultTriple returns, given what Baum-Welch exported
defaultTriple(B, exported) ==
    <<exported[1], floorEmissions(B, exported[2]), exported[3]>>

NoCall ==
    [at |-> "none", pair |-> <<>>, labels |-> <<>>, B |-> <<>>, initial |-> <<>>,
     exported |-> <<>>, default |-> <<>>, trained |-> <<>>, err |-> "none"]

\* a worker is handed trainHMM((cluster, m))
InitWorker ==
    /\ \E c \in ClusterSet, m \in 1..MaxM :
         w = [NoCall EXCEPT !.at = "called", !.pair = <<c, m>>]
    /\ args = [n |-> 0, target_m |-> 2, min_k |-> 1, max_k |-> 1,
               dist_func |-> "hmm", hmm_init |-> "smyth",
               clust_alg |-> "hierarchical", train_mode |-> "cluster"]
    /\ pc = "worker"
    /\ err = "none"
    /\ exists = FALSE
    /\ components = EmptyDict
    /\ composites = EmptyDict
    /\ dist_matrix = NoneMatrix
    /\ partitions = EmptyDict
    /\ labelings = EmptyDict
    /\ k_values = <<>>
    /\ init_hmms = <<>>
    /\ pool = "none"
    /\ job = NoJob
    /\ loc = NoLoc
    /\ oracle = 0
    /\ hist = Hist0
    /\ timer = Timer0

pipelineVars ==
    <<args, pc, err, exists, components, composites, dist_matrix, partitions,
      labelings, k_values, init_hmms, pool, job, loc, oracle, hist, timer>>

\* smythDefaultTriple line 95: B = smythEmissionDistribution(pair)
EmissionStep ==
    /\ w.at = "called"
    /\ \E a \in kMeansAnswers(prepareSeqs(w.pair[1])[1], emissionStates(w.pair)) :
         IF a.st = "fail"
         THEN w' = [w EXCEPT !.at = "failed", !.err = a.val]
         ELSE w' = [w EXCEPT !.at = "emitted",
                             !.labels = a.val,
                             !.B = smythEmissionDistribution(w.pair, a.val)]
    /\ UNCHANGED pipelineVars

\* smythDefaultTriple lines 96-110: 1.0/m_prime raises when B is empty
DefaultStep ==
    /\ w.at = "emitted"
    /\ IF Len(w.B) = 0
       THEN w' = [w EXCEPT !.at = "failed", !.err = "ZeroDivisionError"]
       ELSE \E exported \in baumWelchAnswers(initialTriple(w.B, w.pair[2])) :
              w' = [w EXCEPT !.at = "default",
                             !.initial = initialTriple(w.B, w.pair[2]),
                             !.exported = exported,
                             !.default = defaultTriple(w.B, exported)]
    /\ UNCHANGED pipelineVars

\* reestimated((smythDefaultTriple(pair), cluster)): Baum-Welch once more, and
\* the triple it exports is what trainHMM returns
ReestimateStep ==
    /\ w.at = "default"
    /\ \E exported \in baumWelchAnswers(w.default) :
         w' = [w EXCEPT !.at = "trained", !.trained = exported]
    /\ UNCHANGED pipelineVars

NextWorker ==
    \/ EmissionStep
    \/ DefaultStep
    \/ ReestimateStep

SpecWorker == InitWorker /\ [][NextWorker]_vars

\* ================================================================= claims
\* the keys min_k..max_k
KRange == args.min_k..args.max_k

\* the reassembly of _trainModels has run (to its end or to an IndexError)
TrainingOver ==
    /\ loc.m = "train"
    /\ pc \in {"done", "failed"}
    /\ MapReady(job)

\* the 1-based batch position of cluster c of partitions[k]
BatchPos(k, c) ==
    SumSeq([p \in 1..Len(k_values) |->
              IF k_values[p] < k THEN Len(partitions[k_values[p]]) ELSE 0]) + c

\* C1: after _trainModels, for every k and every cluster position c of
\* partitions[k], components[k] holds at position c the trained triple, the
\* size and the sequence lengths of the batch item built from partitions[k][c],
\* and every triple of the batch is consumed exactly once, by the k it was
\* built for -- whatever number of groups partitions[k] has.
C1_ReassemblyMirrorsFlattening ==
    TrainingOver =>
        /\ \A k \in DOMAIN partitions : \A c \in 1..Len(partitions[k]) :
              /\ Len(components[k].hmm_triples) >= c
              /\ components[k].hmm_triples[c] = job.results[BatchPos(k, c)].val
              /\ components[k].hmm_triples[c] = trainHMM(<<partitions[k][c], args.target_m>>)
              /\ components[k].cluster_sizes[c] = Len(partitions[k][c])
              /\ components[k].seq_lens[c] =
                    [x \in 1..Len(partitions[k][c]) |-> Len(partitions[k][c][x])]
        /\ \A idx \in 1..Len(job.items) :
              /\ Cardinality({p \in 1..Len(hist.consumed) : hist.consumed[p][2] = idx}) = 1
              /\ \A p \in 1..Len(hist.consumed) :
                    hist.consumed[p][2] = idx => hist.consumed[p][1] = hist.train_owner[idx]

\* C2: after model() returns normally the key sets of labelings, partitions,
\* components and composites are exactly min_k..max_k, components[k] holds
\* exactly k triples, k sizes and k sequence-length lists, and composites[k]
\* is built from exactly those k components.
C2_DoneHasKComponentsPerK ==
    pc = "done" =>
        /\ DOMAIN labelings = KRange
        /\ DOMAIN partitions = KRange
        /\ DOMAIN components = KRange
        /\ DOMAIN composites = KRange
        /\ \A k \in KRange :
              /\ Len(components[k].hmm_triples) = k
              /\ Len(components[k].cluster_sizes) = k
              /\ Len(components[k].seq_lens) = k
              /\ composites[k].kind = "composite"
              /\ composites[k].blocks = components[k].hmm_triples
              /\ composites[k].sizes = components[k].cluster_sizes
              /\ composites[k].seq_lens = components[k].seq_lens
              /\ Len(composites[k].blocks) = k

C2_Witness ==
    /\ pc = "done"
    /\ args.clust_alg = "kmedoids"
    /\ args.min_k < args.max_k
    /\ args.max_k = args.n

\* the number of unordered pairs of n sequences
NPairs(n) == (n * (n - 1)) \div 2

\* the row-major position of pair (i, j), i < j, among the pairs of n sequences
PairRank(n, i, j) ==
    Cardinality({q \in (1..n) \X (1..n) :
                    /\ q[1] < q[2]
                    /\ (q[1] < i \/ (q[1] = i /\ q[2] <= j))})

\* the default model built from sequence i alone
ModelOf(i) == tripleToHMM(smythDefaultTriple(<<<<SeqOf(i)>>, args.target_m>>))

\* the average of the two cross log-likelihoods of sequences i and j
AvgLogLik(i, j) ==
    (LogLik(ModelOf(j), SeqOf(i), oracle) + LogLik(ModelOf(i), SeqOf(j), oracle)) \div 2

\* the mini-batch loop of _getHMMDistMatrix is running or has just ended
InDistLoop == loc.m = "hmmdist" /\ pc \in {"dist_loop", "dist_wait"}
DistLoopOver ==
    /\ loc.m = "hmmdist"
    /\ pc = "dist_loop"
    /\ loc.i >= nMiniBatches(loc.n_batchitems, loc.batch_size)

\* C3: for every n and every sub-batch size, the concatenation of the
\* mini-batch results is the distances of all pairs (i, j), i < j, in
\* row-major order, each exactly once: after i mini-batches it is the first
\* min(i*batch_size, n(n-1)/2) of them, and when the loop ends it is what one
\* single batch over all pairs gives.
C3_ChunkedEqualsUnchunked ==
    InDistLoop =>
        /\ Len(loc.condensed) = Min(loc.i * loc.batch_size, NPairs(args.n))
        /\ \A i, j \in 1..args.n :
              (i < j /\ PairRank(args.n, i, j) <= Len(loc.condensed)) =>
                 loc.condensed[PairRank(args.n, i, j)] = AvgLogLik(i, j)
        /\ DistLoopOver => Len(loc.condensed) = NPairs(args.n)

\* the loop ended on an empty mini-batch: n(n-1)/2 is a multiple of the size
C3_Witness ==
    /\ DistLoopOver
    /\ args.n = MaxN
    /\ loc.batch_size > 1
    /\ loc.n_batchitems = loc.batch_size * (loc.i - 1)
    /\ Len(loc.condensed) = NPairs(args.n)

\* C4: the distance matrix the HMM strategy produces has n(n-1)/2 entries,
\* the entry of pair (i, j) is the negated average of the log-likelihood of
\* sequence i under the default model of sequence j and of sequence j under
\* the default model of sequence i, and every entry is >= 0.
C4_HMMDistMatrixEntries ==
    (args.dist_func = "hmm" /\ ~dist_matrix.none) =>
        /\ Len(dist_matrix.data) = NPairs(args.n)
        /\ \A i, j \in 1..args.n :
              i < j => dist_matrix.data[PairRank(args.n, i, j)] = 0 - AvgLogLik(i, j)
        /\ \A p \in 1..Len(dist_matrix.data) : dist_matrix.data[p] >= 0

C4_Witness ==
    /\ args.dist_func = "hmm"
    /\ ~dist_matrix.none
    /\ args.n = MaxN
    /\ \E p \in 1..Len(dist_matrix.data) : dist_matrix.data[p] > 0
    /\ dist_matrix.data[1] # dist_matrix.data[2]

\* C5: stages are separated by barriers.  No partitioning step (tree
\* construction, tree cut, k-medoids task) starts before every pair-distance
\* result has been collected; no trainHMM task of a k is submitted before the
\* partition of that k is complete; with the HMM distance, no pair-distance
\* task is submitted before every default model has been collected.
C5_StageBarriers ==
    /\ hist.part_steps > 0 =>
          /\ hist.pair_submitted = NPairs(args.n)
          /\ hist.pair_collected = NPairs(args.n)
          /\ ~dist_matrix.none
    /\ job.kind = "train" =>
          /\ \A p \in 1..Len(k_values) : k_values[p] \in DOMAIN partitions
          /\ \A k \in DOMAIN partitions :
                Cardinality({x \in 1..Len(hist.train_owner) : hist.train_owner[x] = k})
                   = Len(partitions[k])
          /\ Len(job.items) = Len(hist.train_owner)
    /\ (args.dist_func = "hmm" /\ hist.pair_submitted > 0) =>
          /\ hist.init_collected = args.n
          /\ Len(init_hmms) = args.n

C5_Witness ==
    /\ job.kind = "train"
    /\ pc = "train_wait"
    /\ args.dist_func = "hmm"
    /\ hist.part_steps > 1
    /\ hist.pair_collected = NPairs(MaxN)

\* _hierarchical has ended, by returning or by raising in its loop
HierarchicalOver ==
    /\ args.clust_alg = "hierarchical"
    /\ \/ pc \in {"train", "train_wait", "done"}
       \/ pc = "failed" /\ loc.m \in {"hier", "train"}

\* the groups of a partition are non-empty and hold every sequence once
CoversOnce(part) ==
    /\ \A c \in 1..Len(part) : Len(part[c]) > 0
    /\ \A i \in 1..args.n :
          Cardinality({<<c, x>> \in (1..Len(part)) \X (1..args.n) :
                          x <= Len(part[c]) /\ part[c][x] = SeqOf(i)}) = 1
    /\ SumSeq([c \in 1..Len(part) |-> Len(part[c])]) = args.n

\* C6: with the hierarchical strategy, for every k in [min_k, max_k] that
\* the constructor accepted, partitions[k] after _hierarchical has exactly k
\* non-empty groups that hold every sequence index exactly once.
C6_HierarchicalKGroups ==
    HierarchicalOver =>
        \A k \in KRange :
            /\ k \in DOMAIN partitions
            /\ Len(partitions[k]) = k
            /\ CoversOnce(partitions[k])

\* the configuration is one the documentation of __init__ rules out
InvalidConfig ==
    \/ args.min_k > args.max_k
    \/ args.dist_func \notin {"hmm", "editdistance"}
    \/ args.hmm_init \notin {"smyth", "random"}
    \/ args.clust_alg \notin {"hierarchical", "kmedoids"}
    \/ args.train_mode \notin {"blockdiag", "cluster"}

\* C7: construction with min_k > max_k or an option outside its allowed set
\* fails before the pool is created and before any task is submitted, and no
\* distance, labeling, partition or component state exists afterwards.
C7_InvalidConfigFailsFast ==
    (InvalidConfig /\ pc # "new") =>
        /\ pc = "ctor_failed"
        /\ err = "AssertionError"
        /\ pool = "none"
        /\ hist.submitted = 0
        /\ job.kind = "none"
        /\ ~exists
        /\ dist_matrix.none
        /\ DOMAIN labelings = {}
        /\ DOMAIN partitions = {}
        /\ DOMAIN components = {}
        /\ DOMAIN composites = {}

C7_Witness ==
    /\ pc = "ctor_failed"
    /\ args.min_k > args.max_k
    /\ args.dist_func = "hmm"
    /\ args.train_mode = "cluster"

\* every component of every k is a Smyth-default triple refined per cluster
SmythPerCluster ==
    /\ DOMAIN composites = KRange
    /\ \A k \in DOMAIN components :
          \A c \in 1..Len(components[k].hmm_triples) :
             /\ components[k].hmm_triples[c].kind = "trained"
             /\ components[k].hmm_triples[c].from.kind = "default"

\* C8: a run configured with hmm_init = 'random' or train_mode = 'blockdiag'
\* never completes with components and composites made by the Smyth-default
\* initialiser and per-cluster training without an error being flagged.
C8_UnimplementedNotSilent ==
    (args.hmm_init = "random" \/ args.train_mode = "blockdiag") =>
        ~(pc = "done" /\ err = "none" /\ SmythPerCluster)

\* C9: all-or-nothing per stage.  After a trainHMM task failed, components
\* and composites hold no entry for any k; after a k-medoids task failed,
\* labelings and partitions hold no entry for any k.
C9_AllOrNothing ==
    (pc = "failed" /\ MapFailed(job)) =>
        /\ job.kind = "train" => (DOMAIN components = {} /\ DOMAIN composites = {})
        /\ job.kind = "kmedoids" => (DOMAIN labelings = {} /\ DOMAIN partitions = {})

\* the default models of this run are in and some pair has a positive log-likelihood
PositiveLogLik ==
    /\ args.dist_func = "hmm"
    /\ args.hmm_init = "smyth"
    /\ Len(init_hmms) = args.n
    /\ hist.init_collected = args.n
    /\ \E i, j \in 1..args.n :
          /\ i < j
          /\ \/ LogLik(ModelOf(j), SeqOf(i), oracle) > 0
             \/ LogLik(ModelOf(i), SeqOf(j), oracle) > 0

\* C10: if for some pair a constituent log-likelihood of symDistance is > 0,
\* the run does not get past the distance stage and ends only by the
\* AssertionError of symDistance: no distance matrix, labeling, partition,
\* component or composite is produced.
C10_PositiveLogLikSurfaced ==
    PositiveLogLik =>
        /\ pc \in {"dist_loop", "dist_wait", "failed"}
        /\ pc = "failed" => err = "AssertionError"
        /\ DistLoopOver => FALSE
        /\ dist_matrix.none
        /\ DOMAIN labelings = {}
        /\ DOMAIN partitions = {}
        /\ DOMAIN components = {}
        /\ DOMAIN composites = {}

\* the assertion fired in a later mini-batch, after one had been collected
C10_Witness ==
    /\ PositiveLogLik
    /\ pc = "failed"
    /\ err = "AssertionError"
    /\ Len(loc.condensed) > 0

\* C11: every triple trainHMM returns (smythDefaultTriple, then reestimated),
\* which is what components[k]['hmm_triples'] stores, has every emission
\* standard deviation >= 0.5, whatever Baum-Welch exports.
C11_TrainedSigmaFloor ==
    w.at = "trained" =>
        \A s \in 1..Len(w.trained[2]) : w.trained[2][s][2] >= EPSILON

\* C12: the pool is acquired once per run and released after the final stage;
\* after model() returns the pool is closed, and a later call of model() has
\* a pool of its own: it never hands a task to the pool an earlier run
\* released.
C12_PoolPerRun ==
    /\ pc = "done" => pool = "closed"
    /\ hist.runs >= 2 => pool = "open" \/ pc = "done"

\* the pair (i, j) at row-major position p among the pairs of n sequences
PairAt(n, p) ==
    CHOOSE q \in (1..n) \X (1..n) : q[1] < q[2] /\ PairRank(n, q[1], q[2]) = p

\* the distance matrix as a function of the input and of the external answers
ExpectedDist ==
    [p \in 1..NPairs(args.n) |->
        IF args.dist_func = "hmm"
        THEN 0 - AvgLogLik(PairAt(args.n, p)[1], PairAt(args.n, p)[2])
        ELSE levDistance(SeqOf(PairAt(args.n, p)[1]), SeqOf(PairAt(args.n, p)[2]))]

\* the Mixture Result of k as a function of the labeling of k
ExpectedComponent(k) ==
    LET part == partition(S, labelings[k])
    IN  [hmm_triples |-> [c \in 1..Len(part) |-> trainHMM(<<part[c], args.target_m>>)],
         cluster_sizes |-> [c \in 1..Len(part) |-> Len(part[c])],
         seq_lens |-> [c \in 1..Len(part) |->
                         [x \in 1..Len(part[c]) |-> Len(part[c][x])]]]

\* C13: the outcome of a run is a function of the sequences, the
\* configuration and the answers of the external capabilities alone: whatever
\* the worker scheduling and the order in which the tasks of a batch finish,
\* the distance matrix, the partitions, the component triples and the
\* composites of a completed run are the ones computed from the input (so two
\* runs on the same input with the same answers give the same result).
C13_OutcomeIndependentOfScheduling ==
    pc = "done" =>
        /\ dist_matrix.data = ExpectedDist
        /\ \A k \in KRange :
              /\ partitions[k] = partition(S, labelings[k])
              /\ components[k] = ExpectedComponent(k)
              /\ composites[k] = hmmToTriple(tripleToHMM(compositeTriple(ExpectedComponent(k))))

\* a completed run in which a training task overtook an earlier one
C13_Witness ==
    /\ pc = "done"
    /\ hist.overtaken
    /\ args.min_k < args.max_k
    /\ \E k \in KRange :
          /\ k >= 2
          /\ components[k].hmm_triples[1] # components[k].hmm_triples[2]

\* C14: every value model() records in self.times ('init_hmms',
\* 'distance_matrix', 'clustering', 'modeling', 'total') is the clock reading
\* at the end of its stage minus the clock reading at the start of that
\* stage; in particular 'distance_matrix' of _getHMMDistMatrix is the elapsed
\* time of the mini-batch loop, however many mini-batches it runs.
C14_TimesAreStageDurations ==
    \A key \in DOMAIN timer.times : timer.times[key] = hist.elapsed[key]

\* the pair tasks handed to the pool and not yet collected by the caller
PairsInFlight ==
    IF job.kind \in {"dist", "edit"} /\ pc \in WaitPcs THEN Len(job.items) ELSE 0

\* C15 (as claimed): the number of pair tasks submitted but not yet collected
\* never exceeds the sub-batch size, under either distance strategy --
\* whichever sub-batch size the program is built with.
C15_InFlightBoundedEitherStrategy ==
    /\ job.kind = "dist" => PairsInFlight <= loc.batch_size
    /\ job.kind = "edit" => \A bs \in 1..MaxBatch : PairsInFlight <= bs

\* C15 (amended): with the HMM distance, pair tasks are submitted in
\* sub-batches of at most batch_size items, a sub-batch is submitted only when
\* every earlier pair task has been collected, and so the pair tasks in
\* flight never exceed batch_size.  (The edit-distance strategy submits all
\* pairs in one batch.)
C15_HMMInFlightBounded ==
    /\ (job.kind = "dist" /\ pc = "dist_wait") =>
          /\ PairsInFlight <= loc.batch_size
          /\ hist.pair_submitted - hist.pair_collected = PairsInFlight
          /\ hist.pair_collected = Len(loc.condensed)
    /\ (loc.m = "hmmdist" /\ pc = "dist_loop") => hist.pair_submitted = hist.pair_collected

\* a full sub-batch in flight with more pairs still to be submitted
C15_Witness ==
    /\ job.kind = "dist"
    /\ pc = "dist_wait"
    /\ PairsInFlight = loc.batch_size
    /\ hist.pair_submitted < loc.n_batchitems
    /\ hist.pair_collected > 0

\* smythDefaultTriple has returned
DefaultBuilt == w.at \in {"default", "trained"}

\* C16: smythDefaultTriple returns (A_p, B', pi_p): A_p and pi_p are what
\* Baum-Welch exported, and B' is the emission list computed BEFORE training,
\* means unchanged and every standard deviation sigma replaced by
\* max(sigma, 0.5) -- not the emissions Baum-Welch exported.  So every
\* standard deviation of the result is >= 0.5 and B' is as long as the
\* pre-training list.
C16_DefaultTripleFloorsPreTraining ==
    DefaultBuilt =>
        /\ w.default[1] = w.exported[1]
        /\ w.default[3] = w.exported[3]
        /\ Len(w.default[2]) = Len(w.B)
        /\ \A s \in 1..Len(w.B) :
              /\ w.default[2][s][1] = w.B[s][1]
              /\ w.default[2][s][2] = (IF w.B[s][2] >= EPSILON THEN w.B[s][2] ELSE EPSILON)
              /\ w.default[2][s][2] >= EPSILON

\* two states, one below the floor and one above it, and a Baum-Welch pass
\* that moved the means and the transition matrix
C16_Witness ==
    /\ w.at = "default"
    /\ \E s \in 1..Len(w.B) : w.B[s][2] < EPSILON
    /\ \E s \in 1..Len(w.B) : w.B[s][2] > EPSILON
    /\ w.exported[1] # w.initial[1]
    /\ \E s \in 1..Len(w.B) : w.exported[2][s][1] # w.B[s][1]

\* the values and the labels k_means was given / answered
Distinct(pair) == prepareSeqs(pair[1])[2]
Groups(labels) == {labels[i] : i \in 1..Len(labels)}

\* C17: for a non-empty S and target_m >= 1, the initial triple
\* smythDefaultTriple builds has r states, r the number of groups the scalar
\* clusterer returned, 1 <= r <= min(target_m, number of distinct
\* observations); A is r x r with every entry 1/r (rows sum to 1), pi has r
\* entries 1/r, B has r entries.
C17_InitialTripleUniform ==
    DefaultBuilt =>
        LET r == Cardinality(Groups(w.labels))
        IN  /\ 1 <= r
            /\ r <= Min(w.pair[2], Cardinality(Distinct(w.pair)))
            /\ Len(w.initial[1]) = r
            /\ \A row \in 1..r :
                  /\ Len(w.initial[1][row]) = r
                  /\ \A c \in 1..r : w.initial[1][row][c] = <<1, r>>
                  /\ SumSeq([c \in 1..r |-> w.initial[1][row][c][1]]) = r
            /\ w.initial[3] = [s \in 1..r |-> <<1, r>>]
            /\ Len(w.initial[2]) = r
            /\ w.initial[2] = w.B

\* the clusterer returned fewer groups than it was asked for
C17_Witness ==
    /\ w.at = "default"
    /\ Cardinality(Groups(w.labels)) < Min(w.pair[2], Cardinality(Distinct(w.pair)))
    /\ Len(w.pair[1]) = MaxSeqs

\* a worker call on a cluster without a single observation returns no triple
EmptyClusterNeverReturns ==
    (w.at # "none" /\ Len(prepareSeqs(w.pair[1])[1]) = 0) =>
        w.at \in {"called", "emitted", "failed"}

\* C18: an empty cluster is reported, never silently skipped: when some
\* partitions[k] has an empty cluster or fewer than k clusters, model()
\* ends in an error and produces no Mixture Result for that k (no composite
\* of k is stored).
C18_ShortPartitionReported ==
    \A k \in DOMAIN partitions :
        (Len(partitions[k]) < k \/ \E c \in 1..Len(partitions[k]) : Len(partitions[k][c]) = 0) =>
            /\ pc # "done"
            /\ k \notin DOMAIN composites

\* C19: in one run the distance matrix is computed exactly once whichever
\* clustering strategy is selected.  Hierarchical: the tree is built exactly
\* once and that tree is cut once per k of min_k..max_k.  k-medoids: exactly
\* one task (dist_matrix, k, 10) is submitted per k, and labelings[k] is the
\* labels answered by the task submitted for that same k.
C19_OnceEach ==
    /\ hist.dist_calls <= 1
    /\ hist.tree_builds <= 1
    /\ pc \in {"tree", "kmed", "cut", "kmed_wait", "train", "train_wait", "done"} =>
          /\ hist.dist_calls = 1
          /\ hist.pair_submitted = NPairs(args.n)
    /\ pc = "cut" =>
          /\ hist.tree_builds = 1
          /\ hist.cuts = SubSeq(k_values, 1, loc.kpos - 1)
          /\ \A p \in 1..(loc.kpos - 1) :
                labelings[k_values[p]] = treeCut(loc.tree, k_values[p])
    /\ (pc \in {"train", "train_wait", "done"} /\ args.clust_alg = "hierarchical") =>
          /\ hist.tree_builds = 1
          /\ hist.cuts = k_values
          /\ hist.kmed_tasks = <<>>
    /\ (pc \in {"kmed_wait", "train", "train_wait", "done"} /\ args.clust_alg = "kmedoids") =>
          /\ hist.tree_builds = 0
          /\ Len(hist.kmed_tasks) = Len(k_values)
          /\ \A i \in 1..Len(k_values) :
                hist.kmed_tasks[i] = <<dist_matrix.data, k_values[i], N_PASSES>>
    /\ (pc \in {"train", "train_wait", "done"} /\ args.clust_alg = "kmedoids") =>
          \A i \in 1..Len(k_values) :
              /\ hist.kmed_tasks[i][2] = k_values[i]
              /\ labelings[k_values[i]] = hist.kmed_results[i][1]

\* a k-medoids run over several k whose tasks answered different labels
C19_Witness ==
    /\ pc = "done"
    /\ args.clust_alg = "kmedoids"
    /\ args.min_k < args.max_k
    /\ labelings[args.min_k] # labelings[args.max_k]

\* C20: the worker pool is torn down at run end or on failure: whenever
\* model() has ended, normally or with an error raised in the distance,
\* clustering or training stage, the pool has been closed.
C20_PoolClosedOnEveryExit ==
    (pc \in {"done", "failed"} /\ hist.runs >= 1) => pool = "closed"
====
